---- MODULE Spec2Model ----
(***************************************************************************)
(* Model of package objconv, value.go: the emptiness / zero predicates     *)
(* (IsEmptyValue, IsZeroValue), the zero-value cache (zeroValueOf) and the *)
(* codec registrations made by the cbor and resp packages' init functions. *)
(***************************************************************************)
EXTENDS Integers, Sequences, FiniteSets, TLC

VARIABLES
    \* ---- predicates (value.go:63-146) ----
    arg,        \* the reflect.Value handed to the predicates
    res,        \* what each predicate called so far returned, by its name
    \* ---- zero-value cache (value.go:148-168) ----
    zeroCache,  \* map[reflect.Type]reflect.Value
    readers,    \* zeroMutex: goroutines holding the read lock
    wmutex,     \* zeroMutex: the goroutine inside Lock()..Unlock(), or NoThread
    writer,     \* zeroMutex: the goroutine holding the write lock, or NoThread
    pc,         \* per goroutine: position inside zeroValueOf
    targ,       \* per goroutine: the parameter t
    lv,         \* per goroutine: the local v
    lok,        \* per goroutine: the local ok
    heap,       \* number of allocations made by reflect.Zero so far
    calls,      \* number of zeroValueOf calls started so far
    returned,   \* history: the types for which some call has returned
    late,       \* history: per goroutine, its call began after one for t returned
    \* ---- codec registry (cbor/init.go, resp/init.go) ----
    registry,   \* per registry package: map[string]Codec
    initpc,     \* per format package: index of the next alias its init registers
    running,    \* the package whose init function is running, or "none"
    looked      \* the last Lookup made and its result

predVars == <<arg, res>>
cacheVars == <<zeroCache, readers, wmutex, writer, pc, targ, lv, lok, heap,
               calls, returned, late>>
regVars == <<registry, initpc, running, looked>>
vars == <<predVars, cacheVars, regVars>>

-----------------------------------------------------------------------------
(* Bounds of the model.                                                    *)

\* longest fixed-size array
MaxLen == 2
\* most fields in a record
MaxFields == 2
\* longest text / slice / map
MaxStrLen == 1
\* goroutines calling zeroValueOf
NumThreads == 2
\* zeroValueOf calls started in one run
MaxCalls == 3

-----------------------------------------------------------------------------
(* reflect.Type and reflect.Value.                                         *)

\* reflect.Kind values that value.go switches on (plus the two complex kinds
\* and Invalid, which fall through to the default).
SignedKinds == {"Int", "Int8", "Int16", "Int32", "Int64"}
UnsignedKinds == {"Uint", "Uint8", "Uint16", "Uint32", "Uint64", "Uintptr"}
FloatKinds == {"Float32", "Float64"}
ComplexKinds == {"Complex64", "Complex128"}
NilableKinds == {"Ptr", "Interface", "Chan", "Func"}
ScalarKinds ==
    {"Bool", "String", "Slice", "Map", "UnsafePointer"} \cup SignedKinds
        \cup UnsignedKinds \cup FloatKinds \cup ComplexKinds \cup NilableKinds

\* A reflect.Type: kind, array length, element type, record fields.
BasicT(k) == [kind |-> k, len |-> 0, elem |-> <<>>, fields |-> <<>>]
ArrayT(n, e) == [kind |-> "Array", len |-> n, elem |-> <<e>>, fields |-> <<>>]
StructT(fs) == [kind |-> "Struct", len |-> 0, elem |-> <<>>, fields |-> fs]
InvalidT == BasicT("Invalid")

\* How a record field is declared: exported, unexported, or tagged "-".
Visibility == {"exported", "unexported", "ignored"}

\* A reflect.Value: its type and its contents.
\*   isNil  - nil-ness of a pointer-like / slice / map / interface value
\*   b      - the bool
\*   n      - the integer (for a non-nil pointer: the integer it points to)
\*   f      - the float or complex number
\*   len    - length of a text, slice or map
\*   elems  - array elements, record field values, or the dynamic value
\*            held by a non-nil interface
Blank(t) ==
    [type |-> t, isNil |-> FALSE, b |-> FALSE, n |-> 0, f |-> "0", len |-> 0,
     elems |-> <<>>]
InvalidValue == Blank(InvalidT)

IntVals == {-1, 0, 1}
UintVals == {0, 1}
FloatVals == {"0", "-0", "1.5", "NaN"}
ComplexVals == {"0", "1i"}

\* v.Float() == 0 / complex == 0 in Go: both signed zeros compare equal to 0.
FloatEqZero(f) == f \in {"0", "-0"}

RECURSIVE SeqsOver(_, _)
\* all sequences of length n over S
SeqsOver(S, n) ==
    IF n = 0 THEN {<<>>}
    ELSE {Append(s, x) : s \in SeqsOver(S, n - 1), x \in S}

RECURSIVE ValuesOf(_)
RECURSIVE FieldValues(_, _)
\* all values of the record whose first k fields are fs[1..k]
FieldValues(fs, k) ==
    IF k = 0 THEN {<<>>}
    ELSE {Append(s, x) : s \in FieldValues(fs, k - 1), x \in ValuesOf(fs[k].type)}

\* the values of type t
ValuesOf(t) ==
    LET z == Blank(t) IN
    CASE t.kind = "Bool" -> {[z EXCEPT !.b = x] : x \in BOOLEAN}
      [] t.kind \in SignedKinds -> {[z EXCEPT !.n = x] : x \in IntVals}
      [] t.kind \in UnsignedKinds -> {[z EXCEPT !.n = x] : x \in UintVals}
      [] t.kind \in FloatKinds -> {[z EXCEPT !.f = x] : x \in FloatVals}
      [] t.kind \in ComplexKinds -> {[z EXCEPT !.f = x] : x \in ComplexVals}
      [] t.kind = "String" -> {[z EXCEPT !.len = x] : x \in 0..MaxStrLen}
      [] t.kind \in {"Slice", "Map"} ->
            {[z EXCEPT !.isNil = TRUE]}
                \cup {[z EXCEPT !.len = x] : x \in 0..MaxStrLen}
      [] t.kind = "Ptr" ->
            {[z EXCEPT !.isNil = TRUE]} \cup {[z EXCEPT !.n = x] : x \in UintVals}
      [] t.kind \in {"Chan", "Func", "UnsafePointer"} ->
            {[z EXCEPT !.isNil = x] : x \in BOOLEAN}
      [] t.kind = "Interface" ->
            {[z EXCEPT !.isNil = TRUE]}
                \cup {[z EXCEPT !.elems = <<x>>] : x \in ValuesOf(BasicT("Int"))}
      [] t.kind = "Array" ->
            {[z EXCEPT !.elems = s] : s \in SeqsOver(ValuesOf(t.elem[1]), t.len)}
      [] t.kind = "Struct" ->
            {[z EXCEPT !.elems = s] : s \in FieldValues(t.fields, Len(t.fields))}
      [] OTHER -> {z}

\* The types the model draws values from.
ScalarTypes == {BasicT(k) : k \in ScalarKinds}
NestAtomTypes == {BasicT("Int"), BasicT("Slice")}
FieldDecls(S) == {[vis |-> vz, type |-> t] : vz \in Visibility, t \in S}
ArraysOver(S, maxn) == {ArrayT(n, t) : n \in 0..maxn, t \in S}
StructsOver(S, maxn) ==
    UNION {{StructT(fs) : fs \in SeqsOver(FieldDecls(S), n)} : n \in 0..maxn}
\* arrays and records of atoms
InnerTypes == ArraysOver(NestAtomTypes, MaxLen) \cup StructsOver(NestAtomTypes, MaxFields)
\* the inner types with at most one element or field
SmallInnerTypes == ArraysOver(NestAtomTypes, 1) \cup StructsOver(NestAtomTypes, 1)
\* arrays of arrays / records
OuterArrayTypes == ArraysOver(SmallInnerTypes, MaxLen)
\* the record whose single field, declared with visibility vz, holds v
Wrap(vz, v) ==
    [Blank(StructT(<<[vis |-> vz, type |-> v.type]>>)) EXCEPT !.elems = <<v>>]

\* reflect.Zero(t): the zero value of type t.
RECURSIVE Zero(_)
Zero(t) ==
    LET z == Blank(t) IN
    CASE t.kind \in {"Slice", "Map", "Ptr", "Chan", "Func", "Interface", "UnsafePointer"} ->
            [z EXCEPT !.isNil = TRUE]
      [] t.kind = "Array" -> [z EXCEPT !.elems = [i \in 1..t.len |-> Zero(t.elem[1])]]
      [] t.kind = "Struct" ->
            [z EXCEPT !.elems = [i \in 1..Len(t.fields) |-> Zero(t.fields[i].type)]]
      [] OTHER -> z

\* Whether v is the zero value of its type in the language's sense (v == T{}):
\* every element and every field, exported or not, is zero.
RECURSIVE IsGoZero(_)
IsGoZero(v) ==
    LET k == v.type.kind IN
    CASE k = "Invalid" -> TRUE
      [] k \in {"Slice", "Map", "Ptr", "Chan", "Func", "Interface", "UnsafePointer"} -> v.isNil
      [] k = "Bool" -> ~v.b
      [] k \in SignedKinds \cup UnsignedKinds -> v.n = 0
      [] k \in FloatKinds \cup ComplexKinds -> FloatEqZero(v.f)
      [] k = "String" -> v.len = 0
      [] OTHER -> \A i \in 1..Len(v.elems) : IsGoZero(v.elems[i])

\* reflect.ValueOf(x): x travels as an interface{}; a nil interface gives the
\* invalid Value, a non-nil one gives its dynamic value.
ValueOf(x) ==
    IF x.type.kind = "Interface"
    THEN IF x.isNil THEN InvalidValue ELSE x.elems[1]
    ELSE x

\* v.Len()
LenOf(v) == IF v.type.kind = "Array" THEN v.type.len ELSE v.len

-----------------------------------------------------------------------------
(* value.go:63-92                                                          *)

\* isEmptyValue without reflect.Array in its first case
isEmptyValueNoArray(v) ==
    LET k == v.type.kind IN
    IF k = "Invalid" THEN TRUE
    ELSE CASE k \in {"Map", "Slice", "String"} -> LenOf(v) = 0
           [] k = "Bool" -> ~v.b
           [] k \in SignedKinds -> v.n = 0
           [] k \in UnsignedKinds -> v.n = 0
           [] k \in FloatKinds -> FloatEqZero(v.f)
           [] k \in {"Interface", "Ptr", "Chan", "Func"} -> v.isNil
           [] k = "UnsafePointer" -> v.isNil
           [] OTHER -> FALSE

\* isEmptyValue with maps and slices tested by IsNil, as isZeroValue tests them
isEmptyValueNilMaps(v) ==
    LET k == v.type.kind IN
    IF k = "Invalid" THEN TRUE
    ELSE CASE k \in {"Array", "String"} -> LenOf(v) = 0
           [] k = "Bool" -> ~v.b
           [] k \in SignedKinds -> v.n = 0
           [] k \in UnsignedKinds -> v.n = 0
           [] k \in FloatKinds -> FloatEqZero(v.f)
           [] k \in {"Map", "Slice", "Interface", "Ptr", "Chan", "Func"} -> v.isNil
           [] k = "UnsafePointer" -> v.isNil
           [] OTHER -> FALSE

isEmptyValue(v) ==
    LET k == v.type.kind IN
    IF k = "Invalid" THEN TRUE
    ELSE CASE k \in {"Array", "Map", "Slice", "String"} -> LenOf(v) = 0
           [] k = "Bool" -> ~v.b
           [] k \in SignedKinds -> v.n = 0
           [] k \in UnsignedKinds -> v.n = 0
           [] k \in FloatKinds -> FloatEqZero(v.f)
           [] k \in {"Interface", "Ptr", "Chan", "Func"} -> v.isNil
           [] k = "UnsafePointer" -> v.isNil
           [] OTHER -> FALSE

IsEmptyValue(x) == isEmptyValue(ValueOf(x))

-----------------------------------------------------------------------------
(* value.go:94-146                                                         *)

\* structCache.lookup(t).fields: the indexes of the fields in the record's
\* descriptor: unexported fields and fields tagged "-" are dropped.
StructFields(t) == {i \in 1..Len(t.fields) : t.fields[i].vis = "exported"}

RECURSIVE isZeroValue(_)
\* isZeroArray returning from inside the loop, after the first element
isZeroArrayFirst(v) == LenOf(v) = 0 \/ isZeroValue(v.elems[1])

isZeroArray(v) == \A i \in 1..LenOf(v) : isZeroValue(v.elems[i])

isZeroStruct(v) == \A i \in StructFields(v.type) : isZeroValue(v.elems[i])

isZeroValue(v) ==
    LET k == v.type.kind IN
    IF k = "Invalid" THEN TRUE
    ELSE CASE k \in {"Map", "Slice", "Ptr", "Interface", "Chan", "Func"} -> v.isNil
           [] k = "Bool" -> ~v.b
           [] k \in SignedKinds -> v.n = 0
           [] k \in UnsignedKinds -> v.n = 0
           [] k \in FloatKinds -> FloatEqZero(v.f)
           [] k = "String" -> LenOf(v) = 0
           [] k = "UnsafePointer" -> v.isNil
           [] k = "Array" -> isZeroArray(v)
           [] k = "Struct" -> isZeroStruct(v)
           [] OTHER -> FALSE

IsZeroValue(x) == isZeroValue(ValueOf(x))

-----------------------------------------------------------------------------
(* value.go:148-168: zeroCache, zeroMutex, zeroValueOf                     *)

Threads == 1..NumThreads
NoThread == 0

\* The types zeroValueOf is called with: one that reflect holds indirectly
\* (a record) and one that is pointer-shaped.
CacheTypes ==
    {StructT(<<[vis |-> "unexported", type |-> BasicT("Int")]>>), BasicT("Ptr")}

\* A reflect.Value as the cache holds it: the value and the address of its
\* backing store (0: none; 1: the runtime's shared zero buffer; 2..: an
\* allocation of its own).
NoValue == [val |-> InvalidValue, ptr |-> 0]

\* Pointer-shaped types are held directly in a reflect.Value; all others are
\* held through a pointer to backing store.
IfaceIndir(t) == t.kind \notin {"Ptr", "Map", "Chan", "Func", "UnsafePointer"}

\* reflect.New(t) in place of reflect.Zero(t): a non-nil pointer to a zero t
ZeroValuesNew(t, h) == {[val |-> [Blank(BasicT("Ptr")) EXCEPT !.n = 0], ptr |-> h + 2]}

\* reflect.Zero(t) with h allocations made so far: the possible results. An
\* indirect value points either at the runtime's shared zero buffer or at a
\* fresh allocation, depending on the runtime and the size of t.
ZeroValues(t, h) ==
    IF IfaceIndir(t)
    THEN {[val |-> Zero(t), ptr |-> 1], [val |-> Zero(t), ptr |-> h + 2]}
    ELSE {[val |-> Zero(t), ptr |-> 0]}

\* the insertion made only when the slot is still free
StoreIfAbsent(m, t, v) ==
    [x \in DOMAIN m \cup {t} |-> IF x \in DOMAIN m THEN m[x] ELSE v]

\* zeroCache[t] = v
Store(m, t, v) == [x \in DOMAIN m \cup {t} |-> IF x = t THEN v ELSE m[x]]

InitCache ==
    /\ zeroCache = [x \in {} |-> NoValue]
    /\ readers = {}
    /\ wmutex = NoThread
    /\ writer = NoThread
    /\ pc = [p \in Threads |-> "idle"]
    /\ targ = [p \in Threads |-> BasicT("Ptr")]
    /\ lv = [p \in Threads |-> NoValue]
    /\ lok = [p \in Threads |-> FALSE]
    /\ heap = 0
    /\ calls = 0
    /\ returned = {}
    /\ late = [p \in Threads |-> FALSE]

\* a goroutine calls zeroValueOf(t)
Call(p, t) ==
    /\ pc[p] = "idle"
    /\ calls < MaxCalls
    /\ calls' = calls + 1
    /\ pc' = [pc EXCEPT ![p] = "rlock"]
    /\ targ' = [targ EXCEPT ![p] = t]
    /\ lv' = [lv EXCEPT ![p] = NoValue]
    /\ lok' = [lok EXCEPT ![p] = FALSE]
    /\ late' = [late EXCEPT ![p] = t \in returned]
    /\ UNCHANGED <<zeroCache, readers, wmutex, writer, heap, returned>>

\* zeroMutex.RLock(): waits while a writer holds or has requested the lock
RLock(p) ==
    /\ pc[p] = "rlock"
    /\ wmutex = NoThread
    /\ readers' = readers \cup {p}
    /\ pc' = [pc EXCEPT ![p] = "read"]
    /\ UNCHANGED <<zeroCache, wmutex, writer, targ, lv, lok, heap, calls, returned, late>>

\* the lookup with its ok result dropped: every call takes the miss path
ReadMiss(p) ==
    /\ pc[p] = "read"
    /\ lok' = [lok EXCEPT ![p] = FALSE]
    /\ lv' = [lv EXCEPT ![p] =
                IF targ[p] \in DOMAIN zeroCache THEN zeroCache[targ[p]] ELSE NoValue]
    /\ pc' = [pc EXCEPT ![p] = "runlock"]
    /\ UNCHANGED <<zeroCache, readers, wmutex, writer, targ, heap, calls, returned, late>>

\* v, ok := zeroCache[t]
Read(p) ==
    /\ pc[p] = "read"
    /\ lok' = [lok EXCEPT ![p] = targ[p] \in DOMAIN zeroCache]
    /\ lv' = [lv EXCEPT ![p] =
                IF targ[p] \in DOMAIN zeroCache THEN zeroCache[targ[p]] ELSE NoValue]
    /\ pc' = [pc EXCEPT ![p] = "runlock"]
    /\ UNCHANGED <<zeroCache, readers, wmutex, writer, targ, heap, calls, returned, late>>

\* the read lock released only on a hit: a miss builds with the lock held
RUnlockOnHit(p) ==
    /\ pc[p] = "runlock"
    /\ readers' = IF lok[p] THEN readers \ {p} ELSE readers
    /\ pc' = [pc EXCEPT ![p] = IF lok[p] THEN "ret" ELSE "build"]
    /\ UNCHANGED <<zeroCache, wmutex, writer, targ, lv, lok, heap, calls, returned, late>>

\* zeroMutex.RUnlock(); if !ok { ... }
RUnlock(p) ==
    /\ pc[p] = "runlock"
    /\ readers' = readers \ {p}
    /\ pc' = [pc EXCEPT ![p] = IF lok[p] THEN "ret" ELSE "build"]
    /\ UNCHANGED <<zeroCache, wmutex, writer, targ, lv, lok, heap, calls, returned, late>>

\* v = reflect.Zero(t)
Build(p) ==
    /\ pc[p] = "build"
    /\ \E v \in ZeroValues(targ[p], heap) :
          /\ lv' = [lv EXCEPT ![p] = v]
          /\ heap' = IF v.ptr > 1 THEN heap + 1 ELSE heap
    /\ pc' = [pc EXCEPT ![p] = "lock"]
    /\ UNCHANGED <<zeroCache, readers, wmutex, writer, targ, lok, calls, returned, late>>

\* zeroMutex.Lock(), first half: one writer at a time gets past the inner
\* mutex and from then on new readers wait
LockRequest(p) ==
    /\ pc[p] = "lock"
    /\ wmutex = NoThread
    /\ wmutex' = p
    /\ pc' = [pc EXCEPT ![p] = "lockwait"]
    /\ UNCHANGED <<zeroCache, readers, writer, targ, lv, lok, heap, calls, returned, late>>

\* a Lock() that does not wait for the readers to leave
LockAcquireEarly(p) ==
    /\ pc[p] = "lockwait"
    /\ writer' = p
    /\ pc' = [pc EXCEPT ![p] = "write"]
    /\ UNCHANGED <<zeroCache, readers, wmutex, targ, lv, lok, heap, calls, returned, late>>

\* zeroMutex.Lock(), second half: the lock is taken once the readers left
LockAcquire(p) ==
    /\ pc[p] = "lockwait"
    /\ readers = {}
    /\ writer' = p
    /\ pc' = [pc EXCEPT ![p] = "write"]
    /\ UNCHANGED <<zeroCache, readers, wmutex, targ, lv, lok, heap, calls, returned, late>>

\* zeroCache[t] = v
Write(p) ==
    /\ pc[p] = "write"
    /\ zeroCache' = Store(zeroCache, targ[p], lv[p])
    /\ pc' = [pc EXCEPT ![p] = "unlock"]
    /\ UNCHANGED <<readers, wmutex, writer, targ, lv, lok, heap, calls, returned, late>>

\* zeroMutex.Unlock()
Unlock(p) ==
    /\ pc[p] = "unlock"
    /\ writer' = NoThread
    /\ wmutex' = NoThread
    /\ pc' = [pc EXCEPT ![p] = "ret"]
    /\ UNCHANGED <<zeroCache, readers, targ, lv, lok, heap, calls, returned, late>>

\* return v: the call is over and its locals are gone
Return(p) ==
    /\ pc[p] = "ret"
    /\ returned' = returned \cup {targ[p]}
    /\ pc' = [pc EXCEPT ![p] = "idle"]
    /\ targ' = [targ EXCEPT ![p] = BasicT("Ptr")]
    /\ lv' = [lv EXCEPT ![p] = NoValue]
    /\ lok' = [lok EXCEPT ![p] = FALSE]
    /\ late' = [late EXCEPT ![p] = FALSE]
    /\ UNCHANGED <<zeroCache, readers, wmutex, writer, heap, calls>>

\* one step of one goroutine that is inside zeroValueOf
Step(p) ==
    \/ RLock(p)
    \/ Read(p)
    \/ RUnlock(p)
    \/ Build(p)
    \/ LockRequest(p)
    \/ LockAcquire(p)
    \/ Write(p)
    \/ Unlock(p)
    \/ Return(p)

-----------------------------------------------------------------------------
(* Predicates: a value is picked and the predicates are applied to it.     *)

InitPredIdle ==
    /\ arg = InvalidValue
    /\ res = [c \in {} |-> FALSE]

\* the argument is any scalar, any array or record of atoms, any array of
\* small arrays or records, or any record holding one array or record
InitPred ==
    /\ \/ arg = InvalidValue
       \/ \E t \in ScalarTypes \cup InnerTypes \cup OuterArrayTypes : arg \in ValuesOf(t)
       \/ \E vz \in Visibility, t \in InnerTypes : \E v \in ValuesOf(t) : arg = Wrap(vz, v)
    /\ res = [c \in {} |-> FALSE]

\* the results so far, with the result r of the call named c added
Returned(c, r) == [x \in DOMAIN res \cup {c} |-> IF x = c THEN r ELSE res[x]]

\* IsEmptyValue(arg)
CallIsEmptyValue ==
    /\ "IsEmptyValue" \notin DOMAIN res
    /\ res' = Returned("IsEmptyValue", IsEmptyValue(arg))
    /\ UNCHANGED arg

\* isEmptyValue(arg), as it is applied to a field's reflect.Value
CallisEmptyValue ==
    /\ "isEmptyValue" \notin DOMAIN res
    /\ res' = Returned("isEmptyValue", isEmptyValue(arg))
    /\ UNCHANGED arg

\* IsZeroValue(arg)
CallIsZeroValue ==
    /\ "IsZeroValue" \notin DOMAIN res
    /\ res' = Returned("IsZeroValue", IsZeroValue(arg))
    /\ UNCHANGED arg

\* isZeroValue(arg), as it is applied to an element's or field's reflect.Value
CallisZeroValue ==
    /\ "isZeroValue" \notin DOMAIN res
    /\ res' = Returned("isZeroValue", isZeroValue(arg))
    /\ UNCHANGED arg

-----------------------------------------------------------------------------
(* Codec registration: cbor/init.go and resp/init.go.                      *)

\* leading characters of a name whose letter case the model varies
MaxCaps == 2

\* A name: its text in lower case and the positions written in upper case.
Name(text, caps) == [lower |-> text, caps |-> caps]
Plain(text) == Name(text, {})
Casings == SUBSET (1..MaxCaps)

\* the name with every letter in lower case
ToLower(n) == [n EXCEPT !.caps = {}]

\* the list of cbor's names with the short alias misspelt
CborNamesTypo == <<[lower |-> "application/cbor", caps |-> {}], [lower |-> "cobr", caps |-> {}]>>

\* cbor/init.go: the codec and the names it is registered under, in order
CborCodec == [NewEmitter |-> "cbor.NewEmitter", NewParser |-> "cbor.NewParser"]
CborNames == <<Plain("application/cbor"), Plain("cbor")>>

\* resp/init.go: the codec and the names it is registered under, in order
RespCodec == [NewEmitter |-> "resp.NewEmitter", NewParser |-> "resp.NewParser"]
RespNames == <<Plain("application/resp"), Plain("text/resp"), Plain("resp")>>

Formats == {"cbor", "resp"}
NamesOf(f) == IF f = "cbor" THEN CborNames ELSE RespNames
CodecOf(f) == IF f = "cbor" THEN CborCodec ELSE RespCodec
\* the package whose Register each init function calls
RegistryOf(f) == IF f = "cbor" THEN "objconv" ELSE "mimetype"
Registries == {"objconv", "mimetype"}

NoCodec == [NewEmitter |-> "", NewParser |-> ""]
NoLookup ==
    [pkg |-> "none", name |-> Plain(""), known |-> FALSE, found |-> FALSE,
     codec |-> NoCodec, err |-> ""]

\* Register(name, codec) of registry package k: names are case-insensitive
Register(reg, k, name, codec) ==
    [reg EXCEPT ![k] =
        [x \in DOMAIN reg[k] \cup {ToLower(name)} |->
            IF x = ToLower(name) THEN codec ELSE reg[k][x]]]

\* Lookup(name) of registry package k
Lookup(reg, k, name) ==
    IF ToLower(name) \in DOMAIN reg[k]
    THEN [found |-> TRUE, codec |-> reg[k][ToLower(name)], err |-> ""]
    ELSE [found |-> FALSE, codec |-> NoCodec, err |-> "codec not found"]

InitReg ==
    /\ registry = [k \in Registries |-> [x \in {} |-> NoCodec]]
    /\ initpc = [f \in Formats |-> 1]
    /\ running = "none"
    /\ looked = NoLookup

\* One iteration of the loop of format f's init function. Package
\* initialisation is sequential: an init function runs from start to end
\* before the next one starts.
InitRegister(f) ==
    /\ initpc[f] <= Len(NamesOf(f))
    /\ running = f \/ (running = "none" /\ initpc[f] = 1)
    /\ registry' = Register(registry, RegistryOf(f), NamesOf(f)[initpc[f]], CodecOf(f))
    /\ initpc' = [initpc EXCEPT ![f] = initpc[f] + 1]
    /\ running' = IF initpc[f] = Len(NamesOf(f)) THEN "none" ELSE f
    /\ UNCHANGED looked

\* the texts looked up: every alias of the source, and one no one registers
LookupTexts ==
    {"application/cbor", "cbor", "application/resp", "text/resp", "resp", "json"}

\* the texts that the init functions run so far have registered in package k
RegisteredIn(k) ==
    UNION {{NamesOf(f)[i].lower : i \in 1..(initpc[f] - 1)} :
              f \in {g \in Formats : RegistryOf(g) = k}}

\* a caller looks a name up in registry package k; known records whether the
\* name's text had been registered there before
LookupName(k, n) ==
    /\ looked' = [pkg |-> k, name |-> n, known |-> n.lower \in RegisteredIn(k),
                  found |-> Lookup(registry, k, n).found,
                  codec |-> Lookup(registry, k, n).codec,
                  err |-> Lookup(registry, k, n).err]
    /\ UNCHANGED <<registry, initpc, running>>

-----------------------------------------------------------------------------
(* Specifications.                                                         *)

Init == InitCache /\ InitPredIdle /\ InitReg

Next ==
    \/ \E p \in Threads, t \in CacheTypes : Call(p, t) /\ UNCHANGED <<predVars, regVars>>
    \/ \E p \in Threads : RLock(p) /\ UNCHANGED <<predVars, regVars>>
    \/ \E p \in Threads : Read(p) /\ UNCHANGED <<predVars, regVars>>
    \/ \E p \in Threads : RUnlock(p) /\ UNCHANGED <<predVars, regVars>>
    \/ \E p \in Threads : Build(p) /\ UNCHANGED <<predVars, regVars>>
    \/ \E p \in Threads : LockRequest(p) /\ UNCHANGED <<predVars, regVars>>
    \/ \E p \in Threads : LockAcquire(p) /\ UNCHANGED <<predVars, regVars>>
    \/ \E p \in Threads : Write(p) /\ UNCHANGED <<predVars, regVars>>
    \/ \E p \in Threads : Unlock(p) /\ UNCHANGED <<predVars, regVars>>
    \/ \E p \in Threads : Return(p) /\ UNCHANGED <<predVars, regVars>>

Spec == Init /\ [][Next]_vars

\* Goroutines are scheduled fairly: one that can take a step eventually does.
FairSpec ==
    Spec /\ \A p \in Threads : WF_vars(Step(p) /\ UNCHANGED <<predVars, regVars>>)

PredInit == InitCache /\ InitPred /\ InitReg

PredNext ==
    \/ CallIsEmptyValue /\ UNCHANGED <<cacheVars, regVars>>
    \/ CallisEmptyValue /\ UNCHANGED <<cacheVars, regVars>>
    \/ CallIsZeroValue /\ UNCHANGED <<cacheVars, regVars>>
    \/ CallisZeroValue /\ UNCHANGED <<cacheVars, regVars>>

PredSpec == PredInit /\ [][PredNext]_vars

RegNext ==
    \/ \E f \in Formats : InitRegister(f) /\ UNCHANGED <<cacheVars, predVars>>
    \/ \E k \in Registries, t \in LookupTexts, c \in Casings :
          LookupName(k, Name(t, c)) /\ UNCHANGED <<cacheVars, predVars>>

RegSpec == Init /\ [][RegNext]_vars

-----------------------------------------------------------------------------
(* Properties of the zero-value cache.                                     *)

\* goroutine p is inside its miss path, between the build and the Unlock
Inserting(p) == pc[p] \in {"build", "lock", "lockwait", "write", "unlock"}

\* goroutine p holds zeroMutex, for reading or for writing, or is inside Lock()
InsideLock(p) == pc[p] \in {"read", "runlock", "lockwait", "write", "unlock"}

\* goroutine p cannot take its next step because of goroutine q
BlockedBy(p, q) ==
    /\ p # q
    /\ \/ pc[p] \in {"rlock", "lock"} /\ wmutex = q
       \/ pc[p] = "lockwait" /\ q \in readers

\* every entry is stored under its own type and is a zero value
EntriesAreZero ==
    \A t \in DOMAIN zeroCache :
        zeroCache[t].val.type = t /\ IsGoZero(zeroCache[t].val)

\* every call returns a zero value of the type it was given
ReturnsZero ==
    \A p \in Threads :
        pc[p] = "ret" => lv[p].val.type = targ[p] /\ IsGoZero(lv[p].val)

\* no key is removed
KeysKept == \A t \in DOMAIN zeroCache : t \in DOMAIN zeroCache'

\* no entry is replaced, not even by an equal value with another backing store
EntriesKept ==
    \A t \in DOMAIN zeroCache : t \in DOMAIN zeroCache' /\ zeroCache'[t] = zeroCache[t]

\* an entry may be replaced, but only by a value equal in content
ContentsKept ==
    \A t \in DOMAIN zeroCache :
        t \in DOMAIN zeroCache' /\ zeroCache'[t].val = zeroCache[t].val

\* goroutine p performs its insertion in this step
Inserts(p) == pc[p] = "write" /\ pc'[p] = "unlock"

\* C1 as stated: the cache is append-only, an entry never changes once it is
\* inserted, every entry is the zero value of its key, and every call returns
\* the zero value of its type.
C1_EntriesImmutable ==
    [](EntriesAreZero /\ ReturnsZero) /\ [][EntriesKept]_vars

\* C1, amended: the cache is append-only, every entry is at all times a zero
\* value of its key and every call returns a zero value of its type; an entry
\* may be overwritten, but only by a value of the same content.
C1_EntriesStayZero ==
    [](EntriesAreZero /\ ReturnsZero) /\ [][KeysKept /\ ContentsKept]_vars

\* two calls for one type: q inserted its value and returned it, and the
\* cache now holds another value, of the same content, in q's slot
C1_Witness ==
    \E q \in Threads :
        /\ pc[q] = "ret"
        /\ ~lok[q]
        /\ targ[q] \in DOMAIN zeroCache
        /\ zeroCache[targ[q]] # lv[q]
        /\ zeroCache[targ[q]].val = lv[q].val

\* C2 as stated: a racing caller that takes the write lock after the slot was
\* filled leaves the slot as it is.
C2_FirstInsertKept ==
    [][\A p \in Threads :
          Inserts(p) /\ targ[p] \in DOMAIN zeroCache =>
              zeroCache'[targ[p]] = zeroCache[targ[p]]]_vars

\* C2, amended: every caller that missed stores the value it built, filled
\* slot or not, so the slot holds the value of the caller that wrote last; the
\* value it replaces has the same content.
C2_LastInsertKept ==
    [][\A p \in Threads :
          Inserts(p) =>
              /\ zeroCache'[targ[p]] = lv[p]
              /\ targ[p] \in DOMAIN zeroCache =>
                    zeroCache'[targ[p]].val = zeroCache[targ[p]].val]_vars

\* two callers raced for one type, both built, both inserted: the slot holds
\* the value of p, which wrote last, not the value q inserted before
C2_Witness ==
    \E p, q \in Threads :
        /\ p # q
        /\ targ[p] = targ[q]
        /\ pc[q] = "ret" /\ ~lok[q]
        /\ pc[p] = "unlock" /\ ~lok[p]
        /\ lv[p] # lv[q]
        /\ zeroCache[targ[p]] = lv[p]

\* C3 as stated: a call for type B never waits for a goroutine that is on the
\* miss path of a call for another type A.
C3_NeverWaits ==
    \A p, q \in Threads :
        Inserting(q) /\ targ[p] # targ[q] => ~BlockedBy(p, q)

\* C3, amended: a call waits for another goroutine only while that goroutine
\* is inside a section of zeroMutex (its lookup under the read lock, or its
\* Lock() .. Unlock() around the insertion), whatever the two types are; it
\* never waits for a goroutine that is building its zero value.
C3_WaitsOnlyForLockHolders ==
    \A p, q \in Threads :
        /\ BlockedBy(p, q) => InsideLock(q)
        /\ pc[q] = "build" => q \notin readers /\ wmutex # q /\ writer # q

\* a lookup for one type waits while another goroutine inserts another type
C3_Witness ==
    \E p, q \in Threads :
        /\ targ[p] # targ[q]
        /\ pc[p] = "rlock"
        /\ pc[q] = "write"
        /\ BlockedBy(p, q)

\* C4: a call that starts after a call for the same type has returned hits
\* under the read lock, builds nothing and never takes the write lock; and a
\* call takes the write lock only after its own lookup missed.
C4_WritersOnlyOnMiss ==
    \A p \in Threads :
        /\ late[p] /\ pc[p] # "idle" =>
              /\ ~Inserting(p)
              /\ wmutex # p /\ writer # p
              /\ targ[p] \in DOMAIN zeroCache
              /\ pc[p] \in {"runlock", "ret"} =>
                    lok[p] /\ lv[p].val = zeroCache[targ[p]].val
        /\ Inserting(p) \/ wmutex = p \/ writer = p => ~lok[p]

\* a call that started after another one returned has hit the cache
C4_Witness ==
    \E p \in Threads : late[p] /\ pc[p] = "ret" /\ lok[p]

\* the lock discipline of zeroValueOf
LockDiscipline ==
    /\ \A p \in Threads :
          \* the map is read under the read lock and written under the write lock
          /\ pc[p] = "read" => p \in readers
          /\ pc[p] = "write" => writer = p
          \* the build holds no lock
          /\ pc[p] = "build" => p \notin readers /\ writer # p /\ wmutex # p
          \* never both locks
          /\ ~(p \in readers /\ writer = p)
          \* outside a call, and at its return, no lock is held
          /\ pc[p] \in {"idle", "ret"} => p \notin readers /\ writer # p /\ wmutex # p
    \* a write overlaps no read and no other write
    /\ \A p, q \in Threads :
          pc[p] = "write" /\ p # q => pc[q] \notin {"read", "write"}
    /\ writer # NoThread => readers = {}

\* C9: the lock discipline holds in every state, and under fair scheduling
\* every call returns.
C9_DisciplineAndProgress ==
    /\ []LockDiscipline
    /\ \A p \in Threads : (pc[p] # "idle") ~> (pc[p] = "idle")

\* a writer waits inside Lock() for a reader that is still reading
C9_Witness ==
    \E p, q \in Threads :
        pc[p] = "lockwait" /\ pc[q] = "read" /\ q \in readers /\ wmutex = p

-----------------------------------------------------------------------------
(* Properties of the predicates.                                           *)

\* the reflect.Value a call named c worked on
Seen(c) == IF c \in {"IsEmptyValue", "IsZeroValue"} THEN ValueOf(arg) ELSE arg

\* the emptiness rules: r is the right answer for v
EmptyRule(v, r) ==
    LET k == v.type.kind IN
    /\ k = "Invalid" => r
    /\ k \in {"Slice", "Map", "String"} => (r <=> v.len = 0)
    /\ k = "Array" => (r <=> Len(v.elems) = 0)
    /\ k = "Bool" => (r <=> ~v.b)
    /\ k \in SignedKinds \cup UnsignedKinds => (r <=> v.n = 0)
    /\ k \in FloatKinds => (r <=> v.f \in {"0", "-0"})
    /\ k \in {"Ptr", "Interface", "Chan", "Func"} => (r <=> v.isNil)
    /\ k = "Struct" => ~r

\* C5: IsEmptyValue is shallow: nil interface empty; sequences, mappings and
\* text empty iff of length 0; booleans iff false; numbers iff zero; nullable
\* references iff null; a record never; an array iff it has no element.
C5_EmptyRules ==
    \A c \in DOMAIN res \cap {"IsEmptyValue", "isEmptyValue"} : EmptyRule(Seen(c), res[c])

\* an array of two zero elements was found not empty
C5_Witness ==
    /\ "IsEmptyValue" \in DOMAIN res
    /\ arg.type.kind = "Array"
    /\ Len(arg.elems) = 2
    /\ \A i \in 1..Len(arg.elems) : IsGoZero(arg.elems[i])
    /\ ~res["IsEmptyValue"]

\* the zero rules: nullable kinds by null-ness, scalars as for emptiness,
\* arrays by all their elements, records by all fields of their descriptor
RECURSIVE ZeroRule(_)
ZeroRule(v) ==
    LET k == v.type.kind IN
    CASE k \in {"Map", "Slice", "Ptr", "Interface", "Chan", "Func"} -> v.isNil
      [] k = "Array" -> \A i \in 1..Len(v.elems) : ZeroRule(v.elems[i])
      [] k = "Struct" -> \A i \in StructFields(v.type) : ZeroRule(v.elems[i])
      [] k = "Bool" -> ~v.b
      [] k \in SignedKinds \cup UnsignedKinds -> v.n = 0
      [] k \in FloatKinds -> v.f \in {"0", "-0"}
      [] k = "String" -> v.len = 0
      [] OTHER -> TRUE

\* C6: a nullable value is zero iff it is null; an array iff all its elements
\* are zero; a record iff all fields of its descriptor are zero, recursively.
C6_ZeroRules ==
    \A c \in DOMAIN res \cap {"IsZeroValue", "isZeroValue"} :
        Seen(c).type.kind \in {"Map", "Slice", "Ptr", "Interface", "Chan", "Func",
                               "Array", "Struct"}
            => (res[c] <=> ZeroRule(Seen(c)))

\* an array of records: one record's descriptor field is not zero, so the
\* array is not zero
C6_Witness ==
    /\ "IsZeroValue" \in DOMAIN res
    /\ ~res["IsZeroValue"]
    /\ arg.type.kind = "Array"
    /\ Len(arg.elems) = 2
    /\ arg.type.elem[1].kind = "Struct"
    /\ ZeroRule(arg.elems[1])
    /\ ~ZeroRule(arg.elems[2])

\* C7 as stated: IsZeroValue(v) is true iff v is the zero value of its type.
C7_ExactlyTheZeroValue ==
    "IsZeroValue" \in DOMAIN res => (res["IsZeroValue"] <=> IsGoZero(ValueOf(arg)))

\* how the zero answer z and the empty answer e for v relate
ZeroVersusEmpty(v, z, e) ==
    LET k == v.type.kind IN
    /\ k \notin {"Array", "Struct"} =>
          /\ z => e
          /\ (z # e) <=> (k \in {"Map", "Slice"} /\ ~v.isNil /\ v.len = 0)
    /\ k = "Array" /\ Len(v.elems) > 0 /\ (\A i \in 1..Len(v.elems) : ZeroRule(v.elems[i]))
          => z /\ ~e
    /\ k = "Struct" /\ (\A i \in StructFields(v.type) : ZeroRule(v.elems[i]))
          => z /\ ~e

\* C10: outside arrays and records zero implies empty, and the predicates
\* differ exactly on non-nil maps and slices of length 0; an array with
\* elements that are all zero, and a record whose descriptor fields are all
\* zero, are zero and not empty.
C10_ZeroVersusEmpty ==
    /\ {"IsZeroValue", "IsEmptyValue"} \subseteq DOMAIN res =>
          ZeroVersusEmpty(ValueOf(arg), res["IsZeroValue"], res["IsEmptyValue"])
    /\ {"isZeroValue", "isEmptyValue"} \subseteq DOMAIN res =>
          ZeroVersusEmpty(arg, res["isZeroValue"], res["isEmptyValue"])

\* a non-nil slice of length 0 was found empty and not zero
C10_Witness ==
    /\ {"IsZeroValue", "IsEmptyValue"} \subseteq DOMAIN res
    /\ arg.type.kind = "Slice"
    /\ ~arg.isNil
    /\ arg.len = 0
    /\ res["IsEmptyValue"]
    /\ ~res["IsZeroValue"]

-----------------------------------------------------------------------------
(* Properties of the codec registrations.                                  *)

\* the aliases of each format
AliasesOf(f) ==
    IF f = "cbor" THEN {"application/cbor", "cbor"}
    ELSE {"application/resp", "text/resp", "resp"}

====
